---- MODULE Spec2Model ----
(***************************************************************************)
(* A model of the torus daemon: the session routes of the local proxy      *)
(* (loginRoute, logoutRoute, sessionRoute) and the daemon lifecycle        *)
(* (New, Run, Shutdown).                                                   *)
(*                                                                         *)
(* Spec         the session routes, NumReq handlers running concurrently   *)
(* SpecDaemon   two daemon instances sharing one PID lockfile path         *)
(* SpecMachine  machine creation: Machine.CreateToken, Machine.EncodeToken *)
(* SpecEnvFile  machine bootstrap: writeEnvironmentFile                    *)
(***************************************************************************)
EXTENDS Integers, Sequences, FiniteSets, TLC

(***************************************************************************)
(* Bounds                                                                  *)
(***************************************************************************)
\* number of request handlers that may be in flight at the same time
NumReq == 2
\* number of auth tokens the registry mints before it stops answering post_auth
MaxTokens == 2

Req == 1..NumReq

(***************************************************************************)
(* Inputs                                                                  *)
(***************************************************************************)
\* the users known to the registry, by email
Emails == {"a@b"}
\* the passphrase each user registered with
RegPassphrase == [e \in Emails |-> "p1"]
\* the id of the profile envelope users.get_self returns for each user
SelfID == [e \in Emails |-> "u1"]
\* request bodies of POST /v1/login: a body that does not decode, or the
\* decoded login{Email, Passphrase} ("" is an absent field)
Malformed == [email |-> "?", passphrase |-> "?"]
LoginBodies ==
    {Malformed} \cup [email : Emails \cup {""}, passphrase : {"", "p1", "p2"}]

\* errors: 0 is nil, NetErr an error that is not a *registry.Error, any other
\* value the StatusCode of a *registry.Error
NetErr == 1
RegistryStatuses == {302, 404, 500}
DeleteErrs == {0, NetErr} \cup RegistryStatuses

VARIABLES
    session,      \* the daemon-wide session.Session: id, passphrase, token
    dbSelf,       \* the self envelope cached in the local DB ("" when none)
    regTokens,    \* auth tokens valid at the registry, <<token, owner email>>
    nextToken,    \* the next auth token the registry mints
    req,          \* the request handlers: position and local variables
    lastOK,       \* history: kind of the latest request that changed the
                  \* session state successfully ("none", "login", "logout")
    lockOwner,    \* the daemon instance holding the PID lockfile (0: free)
    daemon,       \* the daemon instances
    mach,         \* machine creation: position and locals of CreateToken and
                  \* EncodeToken
    sess,         \* the ephemeral machine session CreateToken creates
    cancelled,    \* whether the request context of the machine creation is
                  \* cancelled (the client disconnected)
    posts,        \* the keyring-member POSTs sent to the registry, in order
    envfile       \* machine bootstrap: the file system under GlobalRoot and
                  \* the position and locals of writeEnvironmentFile

vars == <<session, dbSelf, regTokens, nextToken, req, lastOK, lockOwner, daemon,
          mach, sess, cancelled, posts, envfile>>

machineVars == <<mach, sess, cancelled, posts>>
fileVars == <<envfile>>
daemonVars == <<lockOwner, daemon>>
routeVars == <<session, dbSelf, regTokens, nextToken, req, lastOK>>

(***************************************************************************)
(* session.Session                                                         *)
(***************************************************************************)
EmptySession == [id |-> "", passphrase |-> "", token |-> 0]

\* NewSession
NewSession == EmptySession

HasToken(s) == s.token # 0
HasPassphrase(s) == s.passphrase # ""
Token(s) == s.token

Populated(s) == HasToken(s) /\ HasPassphrase(s)

\* Session.Set: populate; fails, leaving the session as it is, when the
\* session is already populated
SessionSet(s, id, passphrase, token) ==
    IF Populated(s) THEN s
    ELSE [id |-> id, passphrase |-> passphrase, token |-> token]

\* Session.Logout: zero every field
SessionLogout(s) == EmptySession

(***************************************************************************)
(* crypto and registry                                                     *)
(***************************************************************************)
\* crypto.DeriveLoginHMAC
DeriveLoginHMAC(passphrase, salt, loginToken) ==
    <<"hmac", passphrase, salt, loginToken>>

\* tokens.post_login: the salt and login token of the user
PostLoginSalt(email) == <<"salt", email>>
PostLoginToken(email) == <<"login", email>>

\* the registry accepts the hmac derived from the registered passphrase
HMACAccepted(email, hmac) ==
    hmac = DeriveLoginHMAC(RegPassphrase[email], PostLoginSalt(email),
                           PostLoginToken(email))

(***************************************************************************)
(* Request handlers                                                        *)
(***************************************************************************)
\* a handler's position and locals; pop0 notes whether the session was
\* populated when the request arrived; a finished handler keeps only its
\* response (and the logout handler the error it answered)
IdleReq ==
    [kind |-> "none", pc |-> "idle", email |-> "", passphrase |-> "",
     hmac |-> <<>>, authToken |-> 0, self |-> "", tok |-> 0, err |-> 0,
     status |-> "none", body |-> <<>>, pop0 |-> FALSE]

\* encodeResponseErr(w, err): the response is the encoded error
encodeResponseErr == "error"

\* the handler returns after writing the response
Finish(r, status) ==
    req' = [req EXCEPT ![r] =
              [IdleReq EXCEPT !.kind = req[r].kind, !.pc = "done",
                              !.status = status, !.err = req[r].err]]

\* POST /v1/login arrives: the handler decodes the body, checks the fields,
\* calls client.Tokens.PostLogin(creds.Email) and then
\* crypto.DeriveLoginHMAC(creds.Passphrase, salt, loginToken), returning at
\* the first of them that fails
LoginStart(r) ==
    /\ req[r].pc = "idle"
    /\ \E b \in LoginBodies, postLoginOK \in BOOLEAN, hmacOK \in BOOLEAN :
         LET rq == [IdleReq EXCEPT !.kind = "login"] IN
         IF b = Malformed
         THEN req' = [req EXCEPT ![r] =
                        [rq EXCEPT !.pc = "done", !.status = encodeResponseErr]]
         ELSE IF b.email = "" \/ b.passphrase = ""
         THEN req' = [req EXCEPT ![r] =
                        [rq EXCEPT !.pc = "done", !.status = "400"]]
         ELSE IF ~postLoginOK
         THEN req' = [req EXCEPT ![r] =
                        [rq EXCEPT !.pc = "done", !.status = encodeResponseErr]]
         ELSE IF ~hmacOK
         THEN req' = [req EXCEPT ![r] =
                        [rq EXCEPT !.pc = "done", !.status = encodeResponseErr]]
         ELSE req' = [req EXCEPT ![r] =
                        [rq EXCEPT !.pc = "postAuth", !.email = b.email,
                                   !.passphrase = b.passphrase,
                                   !.hmac = DeriveLoginHMAC(b.passphrase,
                                               PostLoginSalt(b.email),
                                               PostLoginToken(b.email)),
                                   !.pop0 = Populated(session)]]
    /\ UNCHANGED <<session, dbSelf, regTokens, nextToken, lastOK, daemonVars,
                 machineVars, fileVars>>

\* client.Tokens.PostAuth(loginToken, hmac): the registry mints an auth token
\* when the hmac proves the passphrase
LoginPostAuth(r) ==
    /\ req[r].kind = "login" /\ req[r].pc = "postAuth"
    /\ \/ /\ HMACAccepted(req[r].email, req[r].hmac)
          /\ nextToken <= MaxTokens
          /\ req' = [req EXCEPT ![r].pc = "getSelf",
                                ![r].authToken = nextToken]
          /\ regTokens' = regTokens \cup {<<nextToken, req[r].email>>}
          /\ nextToken' = nextToken + 1
       \/ /\ Finish(r, encodeResponseErr)
          /\ UNCHANGED <<regTokens, nextToken>>
    /\ UNCHANGED <<session, dbSelf, lastOK, daemonVars,
                 machineVars, fileVars>>

\* LoginGetSelf without the return on error: the handler goes on with an empty
\* self
LoginGetSelfNoReturn(r) ==
    /\ req[r].kind = "login" /\ req[r].pc = "getSelf"
    /\ \/ /\ \E t \in regTokens :
               /\ t[1] = req[r].authToken
               /\ req' = [req EXCEPT ![r].pc = "dbSet",
                                     ![r].self = SelfID[t[2]]]
       \/ req' = [req EXCEPT ![r].pc = "dbSet"]
    /\ UNCHANGED <<session, dbSelf, regTokens, nextToken, lastOK, daemonVars,
                 machineVars, fileVars>>

\* client.Users.GetSelf(authToken)
LoginGetSelf(r) ==
    /\ req[r].kind = "login" /\ req[r].pc = "getSelf"
    /\ \/ /\ \E t \in regTokens :
               /\ t[1] = req[r].authToken
               /\ req' = [req EXCEPT ![r].pc = "dbSet",
                                     ![r].self = SelfID[t[2]]]
       \/ Finish(r, encodeResponseErr)
    /\ UNCHANGED <<session, dbSelf, regTokens, nextToken, lastOK, daemonVars,
                 machineVars, fileVars>>

\* db.Set(self)
LoginDBSet(r) ==
    /\ req[r].kind = "login" /\ req[r].pc = "dbSet"
    /\ dbSelf' = req[r].self
    /\ req' = [req EXCEPT ![r].pc = "sessionSet"]
    /\ UNCHANGED <<session, regTokens, nextToken, lastOK, daemonVars,
                 machineVars, fileVars>>

\* s.Set(self.ID, creds.Passphrase, authToken), its result discarded, then
\* w.WriteHeader(http.StatusNoContent)
LoginSessionSet(r) ==
    /\ req[r].kind = "login" /\ req[r].pc = "sessionSet"
    /\ session' = SessionSet(session, req[r].self, req[r].passphrase,
                             req[r].authToken)
    /\ Finish(r, "204")
    /\ lastOK' = "login"
    /\ UNCHANGED <<dbSelf, regTokens, nextToken, daemonVars,
                 machineVars, fileVars>>

loginRoute(r) ==
    \/ LoginStart(r)
    \/ LoginPostAuth(r)
    \/ LoginGetSelf(r)
    \/ LoginDBSet(r)
    \/ LoginSessionSet(r)

\* POST /v1/logout arrives: tok := s.Token()
LogoutToken(r) ==
    /\ req[r].pc = "idle"
    /\ LET rq == [IdleReq EXCEPT !.kind = "logout"] IN
       IF Token(session) = 0
       THEN req' = [req EXCEPT ![r] =
                      [rq EXCEPT !.pc = "done", !.status = "404"]]
       ELSE req' = [req EXCEPT ![r] =
                      [rq EXCEPT !.pc = "delete", !.tok = Token(session)]]
    /\ UNCHANGED <<session, dbSelf, regTokens, nextToken, lastOK, daemonVars,
                 machineVars, fileVars>>

\* client.Tokens.Delete(tok): on success the registry has removed the token;
\* on a 5XX it may or may not have
LogoutDelete(r) ==
    /\ req[r].kind = "logout" /\ req[r].pc = "delete"
    /\ \E e \in DeleteErrs :
         /\ req' = [req EXCEPT ![r].pc = "switch", ![r].err = e]
         /\ \/ /\ e = 0 \/ e >= 500
               /\ regTokens' = {t \in regTokens : t[1] # req[r].tok}
            \/ /\ e # 0
               /\ UNCHANGED regTokens
    /\ UNCHANGED <<session, dbSelf, nextToken, lastOK, daemonVars,
                 machineVars, fileVars>>

\* LogoutClears with the case StatusCode >= 400 tried before StatusCode >= 500
LogoutClears4xxFirst(e) ==
    IF e = 0 THEN TRUE
    ELSE IF e = NetErr THEN FALSE
    ELSE IF e >= 400 THEN TRUE
    ELSE FALSE

\* the switch on the error of tokens.delete: whether s.Logout() is called
LogoutClears(e) ==
    IF e = 0 THEN TRUE
    ELSE IF e = NetErr THEN FALSE
    ELSE IF e >= 500 THEN FALSE
    ELSE IF e >= 400 THEN TRUE
    ELSE FALSE

\* the switch on the error of tokens.delete: the response written ("none":
\* the handler writes no response)
LogoutStatus(e) ==
    IF e = 0 THEN "204"
    ELSE IF e = NetErr THEN encodeResponseErr
    ELSE IF e >= 500 THEN encodeResponseErr
    ELSE IF e >= 400 THEN "204"
    ELSE "none"

LogoutSwitch(r) ==
    /\ req[r].kind = "logout" /\ req[r].pc = "switch"
    /\ IF LogoutClears(req[r].err)
       THEN /\ session' = SessionLogout(session)
            /\ lastOK' = "logout"
       ELSE UNCHANGED <<session, lastOK>>
    /\ Finish(r, LogoutStatus(req[r].err))
    /\ UNCHANGED <<dbSelf, regTokens, nextToken, daemonVars,
                 machineVars, fileVars>>

logoutRoute(r) ==
    \/ LogoutToken(r)
    \/ LogoutDelete(r)
    \/ LogoutSwitch(r)

\* SessionStatus with the negation of the condition lost
SessionStatusNoNot(s) ==
    IF HasToken(s) /\ HasPassphrase(s) THEN "404" ELSE "200"

\* the answer of GET /v1/session
SessionStatus(s) ==
    IF ~(HasToken(s) /\ HasPassphrase(s)) THEN "404" ELSE "200"
SessionBody(s) ==
    IF ~(HasToken(s) /\ HasPassphrase(s)) THEN <<"Not logged in">>
    ELSE <<HasToken(s), HasPassphrase(s)>>

\* GET /v1/session
sessionRoute(r) ==
    /\ req[r].pc = "idle"
    /\ req' = [req EXCEPT ![r] =
                 [IdleReq EXCEPT !.kind = "session", !.pc = "done",
                                 !.status = SessionStatus(session),
                                 !.body = SessionBody(session)]]
    /\ UNCHANGED <<session, dbSelf, regTokens, nextToken, lastOK, daemonVars,
                 machineVars, fileVars>>

\* the connection of a finished request is closed; the handler may serve a
\* new request
Finished(r) ==
    /\ req[r].pc = "done"
    /\ req' = [req EXCEPT ![r] = IdleReq]
    /\ UNCHANGED <<session, dbSelf, regTokens, nextToken, lastOK, daemonVars,
                 machineVars, fileVars>>

(***************************************************************************)
(* Machine creation: Machine.CreateToken, then Machine.EncodeToken         *)
(***************************************************************************)
\* the most V1 and V2 keyring memberships createKeyringMemberships derives
MaxV1 == 2
MaxV2 == 2

\* the token secrets a machine is created with
Secrets == {"s1", "s2"}
\* the machine envelope passed to CreateToken
MachineID == "m1"
\* the auth token CreateToken gives the ephemeral session
HelloToken == "hello"

\* the session of the engine (m.engine.session) when a machine is created:
\* the user is logged in
UserSessions ==
    {[id |-> SelfID[e], passphrase |-> RegPassphrase[e], token |-> 1] :
        e \in Emails}

\* session.NewSession(m.engine.guard): an empty session
NoMachineSession ==
    [type |-> "none", machine |-> "", token |-> "", secret |-> "",
     authToken |-> ""]

\* sess.Set(apitypes.MachineSession, machine, token, secret, authToken)
MachineSessionSet(s, machine, token, secret, authToken) ==
    IF s.type # "none" THEN s
    ELSE [type |-> "machine", machine |-> machine, token |-> token,
          secret |-> secret, authToken |-> authToken]

\* the outcomes (TRUE: success) of a call that takes the request context: a
\* call made with a cancelled context returns an error
CtxOutcomes(ctxCancelled) == IF ctxCancelled THEN {FALSE} ELSE {TRUE, FALSE}

\* position and locals of CreateToken and EncodeToken
\*   token       the token envelope CreateToken builds ("" before)
\*   createdBy   its Body.CreatedBy
\*   ctResult    what CreateToken returned: "none" (not yet), "segment", "err"
\*   v1, v2      the number of V1 and V2 memberships derived
\*   next        the V2 members posted so far
\*   etResult    what EncodeToken returned: "none" (not yet), "nil", "err"
\*   cancelled0  whether the context was cancelled when EncodeToken started
InitMach ==
    [pc |-> "idle", secret |-> "", token |-> "", createdBy |-> "",
     ctResult |-> "none", v1 |-> 0, v2 |-> 0, next |-> 0,
     etResult |-> "none", cancelled0 |-> FALSE]

CreateTokenFails ==
    mach' = [mach EXCEPT !.pc = "ctReturned", !.ctResult = "err"]

notMachine == <<routeVars, daemonVars, fileVars>>

\* CreateToken(ctx, notifier, machine, secret): crypto.GenerateSalt(ctx)
CTGenerateSalt ==
    /\ mach.pc = "idle"
    /\ \E secret \in Secrets, ok \in CtxOutcomes(cancelled) :
         IF ok THEN mach' = [mach EXCEPT !.pc = "keypair", !.secret = secret]
         ELSE mach' = [mach EXCEPT !.pc = "ctReturned", !.ctResult = "err",
                                   !.secret = secret]
    /\ UNCHANGED <<sess, cancelled, posts, notMachine>>

\* crypto.DeriveLoginKeypair(ctx, *secret, salt)
CTDeriveLoginKeypair ==
    /\ mach.pc = "keypair"
    /\ \E ok \in CtxOutcomes(cancelled) :
         IF ok THEN mach' = [mach EXCEPT !.pc = "master"]
         ELSE CreateTokenFails
    /\ UNCHANGED <<sess, cancelled, posts, notMachine>>

\* crypto.CreateMasterKeyObject(ctx, *secret, nil)
CTCreateMasterKey ==
    /\ mach.pc = "master"
    /\ \E ok \in CtxOutcomes(cancelled) :
         IF ok THEN mach' = [mach EXCEPT !.pc = "token"]
         ELSE CreateTokenFails
    /\ UNCHANGED <<sess, cancelled, posts, notMachine>>

\* CTBuildToken with CreatedBy taken from the machine instead of the session
\* of the engine
CTBuildTokenByMachine ==
    /\ mach.pc = "token"
    /\ \E ok \in BOOLEAN :
         IF ok THEN mach' = [mach EXCEPT !.pc = "sessSet",
                                         !.token = <<"token", MachineID>>,
                                         !.createdBy = MachineID]
         ELSE mach' = [mach EXCEPT !.pc = "ctReturned", !.ctResult = "err",
                                   !.createdBy = MachineID]
    /\ UNCHANGED <<sess, cancelled, posts, notMachine>>

\* the token body, with CreatedBy: m.engine.session.ID(), and
\* identity.NewMutable(tokenBody)
CTBuildToken ==
    /\ mach.pc = "token"
    /\ \E ok \in BOOLEAN :
         IF ok THEN mach' = [mach EXCEPT !.pc = "sessSet",
                                         !.token = <<"token", MachineID>>,
                                         !.createdBy = session.id]
         ELSE mach' = [mach EXCEPT !.pc = "ctReturned", !.ctResult = "err",
                                   !.createdBy = session.id]
    /\ UNCHANGED <<sess, cancelled, posts, notMachine>>

\* sess := session.NewSession(m.engine.guard); sess.Set(MachineSession,
\* machine, token, *secret, []byte("hello"))
CTSessionSet ==
    /\ mach.pc = "sessSet"
    /\ \E ok \in BOOLEAN :
         IF ok
         THEN /\ sess' = MachineSessionSet(NoMachineSession, MachineID,
                                           mach.token, mach.secret, HelloToken)
              /\ mach' = [mach EXCEPT !.pc = "genKeys"]
         ELSE /\ sess' = NoMachineSession
              /\ CreateTokenFails
    /\ UNCHANGED <<cancelled, posts, notMachine>>

\* c := crypto.NewEngine(sess, m.engine.guard); c.GenerateKeyPairs(ctx)
CTGenerateKeyPairs ==
    /\ mach.pc = "genKeys"
    /\ \E ok \in CtxOutcomes(cancelled) :
         IF ok THEN mach' = [mach EXCEPT !.pc = "packKeys"]
         ELSE CreateTokenFails
    /\ UNCHANGED <<sess, cancelled, posts, notMachine>>

\* generateKeypairs(ctx, c, orgID, sess.AuthID(), kp), then the segment is
\* returned
CTPackageKeypairs ==
    /\ mach.pc = "packKeys"
    /\ \E ok \in CtxOutcomes(cancelled) :
         IF ok THEN mach' = [mach EXCEPT !.pc = "ctReturned",
                                         !.ctResult = "segment"]
         ELSE CreateTokenFails
    /\ UNCHANGED <<sess, cancelled, posts, notMachine>>

CreateToken ==
    \/ CTGenerateSalt
    \/ CTDeriveLoginKeypair
    \/ CTCreateMasterKey
    \/ CTBuildToken
    \/ CTSessionSet
    \/ CTGenerateKeyPairs
    \/ CTPackageKeypairs

EncodeTokenReturns(err) ==
    mach' = [mach EXCEPT !.pc = "etReturned", !.etResult = err]

\* a keyring-member POST: the V1 batch, or one V2 member
MemberPost(kind, members, ok) ==
    [kind |-> kind, members |-> members, ok |-> ok]

\* ETDerive without the return on error: EncodeToken goes on with the nil
\* memberships
ETDeriveNoReturn ==
    /\ mach.pc = "ctReturned" /\ mach.ctResult = "segment"
    /\ \E n1 \in 0..MaxV1, n2 \in 0..MaxV2, ok \in CtxOutcomes(cancelled) :
         IF ok THEN mach' = [mach EXCEPT !.pc = "postV1", !.v1 = n1,
                                         !.v2 = n2,
                                         !.cancelled0 = cancelled]
         ELSE mach' = [mach EXCEPT !.pc = "postV1",
                                   !.cancelled0 = cancelled]
    /\ UNCHANGED <<sess, cancelled, posts, notMachine>>

\* EncodeToken(ctx, notifier, token): createKeyringMemberships(ctx, ...)
ETDerive ==
    /\ mach.pc = "ctReturned" /\ mach.ctResult = "segment"
    /\ \E n1 \in 0..MaxV1, n2 \in 0..MaxV2, ok \in CtxOutcomes(cancelled) :
         IF ok THEN mach' = [mach EXCEPT !.pc = "postV1", !.v1 = n1,
                                         !.v2 = n2,
                                         !.cancelled0 = cancelled]
         ELSE mach' = [mach EXCEPT !.pc = "etReturned", !.etResult = "err",
                                   !.cancelled0 = cancelled]
    /\ UNCHANGED <<sess, cancelled, posts, notMachine>>

\* ETPostV1 without the test len(v1members) != 0
ETPostV1Always ==
    /\ mach.pc = "postV1"
    /\ IF cancelled
       THEN EncodeTokenReturns("err") /\ UNCHANGED posts
       ELSE \E ok \in BOOLEAN :
              /\ posts' = Append(posts, MemberPost("v1", 1..mach.v1, ok))
              /\ IF ok THEN mach' = [mach EXCEPT !.pc = "postV2"]
                 ELSE EncodeTokenReturns("err")
    /\ UNCHANGED <<sess, cancelled, notMachine>>

\* if len(v1members) != 0: m.engine.client.KeyringMember.Post(ctx, v1members);
\* a request made with a cancelled context is not sent
ETPostV1 ==
    /\ mach.pc = "postV1"
    /\ IF mach.v1 = 0
       THEN mach' = [mach EXCEPT !.pc = "postV2"] /\ UNCHANGED posts
       ELSE IF cancelled
       THEN EncodeTokenReturns("err") /\ UNCHANGED posts
       ELSE \E ok \in BOOLEAN :
              /\ posts' = Append(posts, MemberPost("v1", 1..mach.v1, ok))
              /\ IF ok THEN mach' = [mach EXCEPT !.pc = "postV2"]
                 ELSE EncodeTokenReturns("err")
    /\ UNCHANGED <<sess, cancelled, notMachine>>

\* ETPostV2 without the return on error: the loop goes on to the next member
ETPostV2NoReturn ==
    /\ mach.pc = "postV2" /\ mach.next < mach.v2
    /\ IF cancelled
       THEN mach' = [mach EXCEPT !.next = @ + 1] /\ UNCHANGED posts
       ELSE \E ok \in BOOLEAN :
              /\ posts' = Append(posts,
                                 MemberPost("v2", {mach.next + 1}, ok))
              /\ mach' = [mach EXCEPT !.next = @ + 1]
    /\ UNCHANGED <<sess, cancelled, notMachine>>

\* for _, member := range v2members:
\* m.engine.client.Keyring.Members.Post(ctx, member)
ETPostV2 ==
    /\ mach.pc = "postV2" /\ mach.next < mach.v2
    /\ IF cancelled
       THEN EncodeTokenReturns("err") /\ UNCHANGED posts
       ELSE \E ok \in BOOLEAN :
              /\ posts' = Append(posts,
                                 MemberPost("v2", {mach.next + 1}, ok))
              /\ IF ok THEN mach' = [mach EXCEPT !.next = @ + 1]
                 ELSE EncodeTokenReturns("err")
    /\ UNCHANGED <<sess, cancelled, notMachine>>

\* the loop is over: return nil
ETReturn ==
    /\ mach.pc = "postV2" /\ mach.next = mach.v2
    /\ EncodeTokenReturns("nil")
    /\ UNCHANGED <<sess, cancelled, posts, notMachine>>

EncodeToken ==
    \/ ETDerive
    \/ ETPostV1
    \/ ETPostV2
    \/ ETReturn

\* the client disconnects: the request context is cancelled
Cancel ==
    /\ ~cancelled
    /\ mach.pc # "etReturned"
    /\ ~(mach.pc = "ctReturned" /\ mach.ctResult = "err")
    /\ cancelled' = TRUE
    /\ UNCHANGED <<mach, sess, posts, notMachine>>

(***************************************************************************)
(* bootstrap: writeEnvironmentFile                                         *)
(***************************************************************************)
\* file modes and process umasks
FileModes == {"0600", "0644", "0666"}
Umasks == {"022", "077"}

\* the mode os.Create gives a new file: 0666 less the umask
CreateMode(umask) == IF umask = "077" THEN "0600" ELSE "0644"

\* the token id bootstrap.Do returned
TokenID == "t1"

\* the two lines written: TORUS_TOKEN_ID=<token>, TORUS_TOKEN_SECRET=<secret>
TokenLine(token) == <<"TORUS_TOKEN_ID", token>>
SecretLine(secret) == <<"TORUS_TOKEN_SECRET", secret>>

\* GlobalRoot (dir), the file GlobalRoot/EnvironmentFile (exists, mode,
\* content), the process (umask), the arguments (token, secret), the
\* bufio.Writer (buf), the position (pc) and the result ("none": not yet)
EnvFile(dir, exists, mode, content, umask, secret) ==
    [dir |-> dir, exists |-> exists, mode |-> mode, content |-> content,
     umask |-> umask, token |-> TokenID, secret |-> secret, buf |-> <<>>,
     pc |-> "stat", result |-> "none"]

\* the file systems writeEnvironmentFile can start on: no GlobalRoot, an
\* empty GlobalRoot, or a GlobalRoot with an older environment file
EnvFileInits ==
    {EnvFile(dir, FALSE, "none", <<>>, umask, secret) :
        dir \in BOOLEAN, umask \in Umasks, secret \in Secrets}
    \cup {EnvFile(TRUE, TRUE, mode, <<TokenLine("t0"), SecretLine("s0")>>,
                  umask, secret) :
        mode \in FileModes, umask \in Umasks, secret \in Secrets}

InitEnvFile == EnvFile(FALSE, FALSE, "none", <<>>, "022", "s1")

notFile == <<routeVars, daemonVars, machineVars>>

\* os.Stat(GlobalRoot); if os.IsNotExist(err) { os.Mkdir(GlobalRoot, 0700) }
\* (the result of Mkdir is dropped)
WEStat ==
    /\ envfile.pc = "stat"
    /\ IF envfile.dir
       THEN envfile' = [envfile EXCEPT !.pc = "create"]
       ELSE \E made \in BOOLEAN :
              envfile' = [envfile EXCEPT !.pc = "create", !.dir = made]
    /\ UNCHANGED notFile

\* f, err := os.Create(envPath); if err != nil { return err }
\* Create truncates an existing file and keeps its mode
WECreate ==
    /\ envfile.pc = "create"
    /\ \E ok \in (IF envfile.dir THEN BOOLEAN ELSE {FALSE}) :
         IF ok
         THEN envfile' = [envfile EXCEPT
                !.pc = "chmod", !.exists = TRUE, !.content = <<>>,
                !.mode = IF envfile.exists THEN @
                         ELSE CreateMode(envfile.umask)]
         ELSE envfile' = [envfile EXCEPT !.pc = "returned", !.result = "err"]
    /\ UNCHANGED notFile

\* os.Chmod(envPath, 0600) (the result is dropped)
WEChmod ==
    /\ envfile.pc = "chmod"
    /\ \E ok \in BOOLEAN :
         envfile' = [envfile EXCEPT !.pc = "writeToken",
                                    !.mode = IF ok THEN "0600" ELSE @]
    /\ UNCHANGED notFile

\* w.WriteString("TORUS_TOKEN_ID=%s\n"): the line stays in the buffer
WEWriteToken ==
    /\ envfile.pc = "writeToken"
    /\ envfile' = [envfile EXCEPT !.pc = "writeSecret",
                                  !.buf = Append(@, TokenLine(envfile.token))]
    /\ UNCHANGED notFile

\* w.WriteString("TORUS_TOKEN_SECRET=%s\n")
WEWriteSecret ==
    /\ envfile.pc = "writeSecret"
    /\ envfile' = [envfile EXCEPT !.pc = "flush",
                                  !.buf = Append(@, SecretLine(envfile.secret))]
    /\ UNCHANGED notFile

\* w.Flush() (the result is dropped): the write stores all of the buffer, or
\* fails after storing k of its lines
WEFlush ==
    /\ envfile.pc = "flush"
    /\ \E k \in 0..Len(envfile.buf) :
         envfile' = [envfile EXCEPT !.pc = "return",
                                    !.content = SubSeq(envfile.buf, 1, k),
                                    !.buf = SubSeq(envfile.buf, k + 1,
                                                   Len(envfile.buf))]
    /\ UNCHANGED notFile

\* return nil
WEReturn ==
    /\ envfile.pc = "return"
    /\ envfile' = [envfile EXCEPT !.pc = "returned", !.result = "nil"]
    /\ UNCHANGED notFile

writeEnvironmentFile ==
    \/ WEStat
    \/ WECreate
    \/ WEChmod
    \/ WEWriteToken
    \/ WEWriteSecret
    \/ WEFlush
    \/ WEReturn

(***************************************************************************)
(* Daemon lifecycle: New, Run, Shutdown                                    *)
(***************************************************************************)
\* the daemon instances (processes) configured with the same cfg.PidPath
Daemons == {1, 2}

\* the environment Run looks up: whether each variable is set
Envs == [hasEmail : BOOLEAN, hasPassword : BOOLEAN,
         hasTokenID : BOOLEAN, hasTokenSecret : BOOLEAN]
NoEnv == [hasEmail |-> FALSE, hasPassword |-> FALSE,
          hasTokenID |-> FALSE, hasTokenSecret |-> FALSE]

\* type Daemon struct, with the position of New, Run and Shutdown
\*   result    what New returned: "none" (not yet), "daemon", "err",
\*             "nil" (a nil daemon and a nil error)
\*   db        "none", "open", "closed"
\*   proxy     "none", "created" (socket bound), "listening", "closed"
\*   updates   "idle", "running", "stopped"
\*   sess      principal of the session: "empty", "user", "machine"
\*   logins    history: the logins Run completed successfully
\*   runErr    what Run returned: "none" (not yet), "nil", "login", "parse",
\*             "listen"
\*   sdResult  what the latest Shutdown call returned: "none", "nil", "err"
InitDaemon ==
    [newpc |-> "start", result |-> "none", db |-> "none", proxy |-> "none",
     updates |-> "idle", sess |-> "empty", logins |-> {},
     hasShutdown |-> FALSE,
     runpc |-> "none", env |-> NoEnv, runErr |-> "none",
     sdpc |-> "none", sdResult |-> "none"]

NewFails(d) ==
    daemon' = [daemon EXCEPT ![d].newpc = "returned", ![d].result = "err"]

\* lockfile.New(cfg.PidPath)
NewLockfile(d) ==
    /\ daemon[d].newpc = "start"
    /\ \E ok \in BOOLEAN :
         IF ok THEN daemon' = [daemon EXCEPT ![d].newpc = "tryLock"]
         ELSE NewFails(d)
    /\ UNCHANGED <<lockOwner, routeVars, machineVars, fileVars>>

\* lock.TryLock(): fails when another process holds the lockfile
NewTryLock(d) ==
    /\ daemon[d].newpc = "tryLock"
    /\ IF lockOwner \notin {0, d}
       THEN NewFails(d) /\ UNCHANGED lockOwner
       ELSE /\ lockOwner' = d
            /\ daemon' = [daemon EXCEPT ![d].newpc = "chmod"]
    /\ UNCHANGED <<routeVars, machineVars, fileVars>>

\* if groupShared { os.Chmod(string(lock), 0640) }
NewChmod(d) ==
    /\ daemon[d].newpc = "chmod"
    /\ \E groupShared \in BOOLEAN, ok \in BOOLEAN :
         IF groupShared /\ ~ok THEN NewFails(d)
         ELSE daemon' = [daemon EXCEPT ![d].newpc = "db"]
    /\ UNCHANGED <<lockOwner, routeVars, machineVars, fileVars>>

\* db.NewDB(cfg.DBPath)
NewDB(d) ==
    /\ daemon[d].newpc = "db"
    /\ \E ok \in BOOLEAN :
         IF ok THEN daemon' = [daemon EXCEPT ![d].newpc = "build",
                                             ![d].db = "open"]
         ELSE NewFails(d)
    /\ UNCHANGED <<lockOwner, routeVars, machineVars, fileVars>>

\* the guard, session, crypto engine, registry client, logic engine and
\* updates engine are constructed; a panic is recovered by the deferred
\* function, which assigns the local err: New returns its zero results
NewBuild(d) ==
    /\ daemon[d].newpc = "build"
    /\ \E panic \in BOOLEAN :
         IF panic
         THEN daemon' = [daemon EXCEPT ![d].newpc = "returned",
                                       ![d].result = "nil"]
         ELSE daemon' = [daemon EXCEPT ![d].newpc = "proxy"]
    /\ UNCHANGED <<lockOwner, routeVars, machineVars, fileVars>>

\* socket.NewAuthProxy(...), then return daemon, nil
NewAuthProxy(d) ==
    /\ daemon[d].newpc = "proxy"
    /\ \E ok \in BOOLEAN :
         IF ok THEN daemon' = [daemon EXCEPT ![d].newpc = "returned",
                                             ![d].result = "daemon",
                                             ![d].proxy = "created"]
         ELSE NewFails(d)
    /\ UNCHANGED <<lockOwner, routeVars, machineVars, fileVars>>

\* New is called again after it failed before it acquired anything
NewAgain(d) ==
    /\ daemon[d].newpc = "returned" /\ daemon[d].result = "err"
    /\ lockOwner # d /\ daemon[d].db = "none"
    /\ daemon' = [daemon EXCEPT ![d] = InitDaemon]
    /\ UNCHANGED <<lockOwner, routeVars, machineVars, fileVars>>

New(d) ==
    \/ NewLockfile(d)
    \/ NewTryLock(d)
    \/ NewChmod(d)
    \/ NewDB(d)
    \/ NewBuild(d)
    \/ NewAuthProxy(d)
    \/ NewAgain(d)

\* d.logic.Session.Login: populates the session; fails when the session is
\* already populated
LoginOutcomes(principal) == IF principal = "empty" THEN {TRUE, FALSE} ELSE {FALSE}

RunReturns(d, err) ==
    daemon' = [daemon EXCEPT ![d].runpc = "returned", ![d].runErr = err]

\* RunUserLogin without the return on a failed login
RunUserLoginNoReturn(d) ==
    /\ daemon[d].result = "daemon" /\ daemon[d].runpc = "none"
    /\ \E env \in Envs :
         IF env.hasEmail /\ env.hasPassword
         THEN \E ok \in LoginOutcomes(daemon[d].sess) :
                IF ok THEN daemon' = [daemon EXCEPT ![d].runpc = "machineLogin",
                                                    ![d].env = env,
                                                    ![d].sess = "user",
                                                    ![d].logins = {"user"}]
                ELSE daemon' = [daemon EXCEPT ![d].runpc = "machineLogin",
                                              ![d].env = env]
         ELSE daemon' = [daemon EXCEPT ![d].runpc = "machineLogin",
                                       ![d].env = env]
    /\ UNCHANGED <<lockOwner, routeVars, machineVars, fileVars>>

\* Run looks up the four variables; if hasEmail && hasPassword, the user login
RunUserLogin(d) ==
    /\ daemon[d].result = "daemon" /\ daemon[d].runpc = "none"
    /\ \E env \in Envs :
         IF env.hasEmail /\ env.hasPassword
         THEN \E ok \in LoginOutcomes(daemon[d].sess) :
                IF ok THEN daemon' = [daemon EXCEPT ![d].runpc = "machineLogin",
                                                    ![d].env = env,
                                                    ![d].sess = "user",
                                                    ![d].logins = {"user"}]
                ELSE daemon' = [daemon EXCEPT ![d].runpc = "returned",
                                              ![d].runErr = "login",
                                              ![d].env = env]
         ELSE daemon' = [daemon EXCEPT ![d].runpc = "machineLogin",
                                       ![d].env = env]
    /\ UNCHANGED <<lockOwner, routeVars, machineVars, fileVars>>

\* if hasTokenID && hasTokenSecret: identity.DecodeFromString(tokenID),
\* base64.NewFromString(tokenSecret), then the machine login
RunMachineLogin(d) ==
    /\ daemon[d].runpc = "machineLogin"
    /\ IF daemon[d].env.hasTokenID /\ daemon[d].env.hasTokenSecret
       THEN \E idOK \in BOOLEAN, secretOK \in BOOLEAN :
              IF ~idOK \/ ~secretOK THEN RunReturns(d, "parse")
              ELSE \E ok \in LoginOutcomes(daemon[d].sess) :
                     IF ok THEN daemon' = [daemon EXCEPT ![d].runpc = "updates",
                                                         ![d].sess = "machine",
                                                         ![d].logins =
                                                           @ \cup {"machine"}]
                     ELSE RunReturns(d, "login")
       ELSE daemon' = [daemon EXCEPT ![d].runpc = "updates"]
    /\ UNCHANGED <<lockOwner, routeVars, machineVars, fileVars>>

\* d.updates.Start(): a failure is only logged
RunUpdatesStart(d) ==
    /\ daemon[d].runpc = "updates"
    /\ \E ok \in BOOLEAN :
         IF ok THEN daemon' = [daemon EXCEPT ![d].runpc = "listen",
                                             ![d].updates = "running"]
         ELSE daemon' = [daemon EXCEPT ![d].runpc = "listen"]
    /\ UNCHANGED <<lockOwner, routeVars, machineVars, fileVars>>

\* d.proxy.Listen(): serves until the listener is closed; fails at once on a
\* closed listener
RunListen(d) ==
    /\ daemon[d].runpc = "listen"
    /\ IF daemon[d].proxy = "created"
       THEN daemon' = [daemon EXCEPT ![d].runpc = "serving",
                                     ![d].proxy = "listening",
                                     ![d].env = NoEnv]
       ELSE RunReturns(d, "listen")
    /\ UNCHANGED <<lockOwner, routeVars, machineVars, fileVars>>

\* d.proxy.Listen() returns once the listener is closed
RunReturn(d) ==
    /\ daemon[d].runpc = "serving" /\ daemon[d].proxy = "closed"
    /\ RunReturns(d, "nil")
    /\ UNCHANGED <<lockOwner, routeVars, machineVars, fileVars>>

Run(d) ==
    \/ RunUserLogin(d)
    \/ RunMachineLogin(d)
    \/ RunUpdatesStart(d)
    \/ RunListen(d)
    \/ RunReturn(d)

ShutdownFails(d) ==
    daemon' = [daemon EXCEPT ![d].sdpc = "none", ![d].sdResult = "err"]

\* if d.hasShutdown { return nil }; d.hasShutdown = true
ShutdownEnter(d) ==
    /\ daemon[d].result = "daemon" /\ daemon[d].sdpc = "none"
    /\ IF daemon[d].hasShutdown
       THEN daemon' = [daemon EXCEPT ![d].sdResult = "nil"]
       ELSE daemon' = [daemon EXCEPT ![d].hasShutdown = TRUE,
                                     ![d].sdpc = "unlock",
                                     ![d].sdResult = "none"]
    /\ UNCHANGED <<lockOwner, routeVars, machineVars, fileVars>>

\* d.lock.Unlock()
ShutdownUnlock(d) ==
    /\ daemon[d].sdpc = "unlock"
    /\ \E ok \in BOOLEAN :
         IF ok
         THEN /\ lockOwner' = IF lockOwner = d THEN 0 ELSE lockOwner
              /\ daemon' = [daemon EXCEPT ![d].sdpc = "proxy"]
         ELSE ShutdownFails(d) /\ UNCHANGED lockOwner
    /\ UNCHANGED <<routeVars, machineVars, fileVars>>

\* d.proxy.Close()
ShutdownProxyClose(d) ==
    /\ daemon[d].sdpc = "proxy"
    /\ \E ok \in BOOLEAN :
         IF ok THEN daemon' = [daemon EXCEPT ![d].sdpc = "db",
                                             ![d].proxy = "closed"]
         ELSE ShutdownFails(d)
    /\ UNCHANGED <<lockOwner, routeVars, machineVars, fileVars>>

\* d.db.Close()
ShutdownDBClose(d) ==
    /\ daemon[d].sdpc = "db"
    /\ \E ok \in BOOLEAN :
         IF ok THEN daemon' = [daemon EXCEPT ![d].sdpc = "updates",
                                             ![d].db = "closed"]
         ELSE ShutdownFails(d)
    /\ UNCHANGED <<lockOwner, routeVars, machineVars, fileVars>>

\* d.updates.Stop(), then return nil
ShutdownUpdatesStop(d) ==
    /\ daemon[d].sdpc = "updates"
    /\ \E ok \in BOOLEAN :
         IF ok THEN daemon' = [daemon EXCEPT ![d].sdpc = "none",
                                             ![d].sdResult = "nil",
                                             ![d].updates = "stopped"]
         ELSE ShutdownFails(d)
    /\ UNCHANGED <<lockOwner, routeVars, machineVars, fileVars>>

Shutdown(d) ==
    \/ ShutdownEnter(d)
    \/ ShutdownUnlock(d)
    \/ ShutdownProxyClose(d)
    \/ ShutdownDBClose(d)
    \/ ShutdownUpdatesStop(d)

InitDaemons ==
    /\ session = NewSession
    /\ dbSelf = ""
    /\ regTokens = {}
    /\ nextToken = 1
    /\ req = [r \in Req |-> IdleReq]
    /\ lastOK = "none"
    /\ lockOwner = 0
    /\ daemon = [d \in Daemons |-> InitDaemon]
    /\ mach = InitMach
    /\ sess = NoMachineSession
    /\ cancelled = FALSE
    /\ posts = <<>>
    /\ envfile = InitEnvFile

NextDaemons ==
    \E d \in Daemons :
        \/ New(d)
        \/ Run(d)
        \/ Shutdown(d)

SpecDaemon == InitDaemons /\ [][NextDaemons]_vars

(***************************************************************************)
(* The session routes of a running daemon                                  *)
(***************************************************************************)
Init ==
    /\ session = NewSession
    /\ dbSelf = ""
    /\ regTokens = {}
    /\ nextToken = 1
    /\ req = [r \in Req |-> IdleReq]
    /\ lastOK = "none"
    /\ lockOwner = 0
    /\ daemon = [d \in Daemons |-> InitDaemon]
    /\ mach = InitMach
    /\ sess = NoMachineSession
    /\ cancelled = FALSE
    /\ posts = <<>>
    /\ envfile = InitEnvFile

Next ==
    \E r \in Req :
        \/ loginRoute(r)
        \/ logoutRoute(r)
        \/ sessionRoute(r)
        \/ Finished(r)

Spec == Init /\ [][Next]_vars

(***************************************************************************)
(* The creation of one machine by a logged-in user                         *)
(***************************************************************************)
InitMachine ==
    /\ session \in UserSessions
    /\ dbSelf = session.id
    /\ regTokens = {session.token}
    /\ nextToken = session.token + 1
    /\ req = [r \in Req |-> IdleReq]
    /\ lastOK = "login"
    /\ lockOwner = 0
    /\ daemon = [d \in Daemons |-> InitDaemon]
    /\ mach = InitMach
    /\ sess = NoMachineSession
    /\ cancelled = FALSE
    /\ posts = <<>>
    /\ envfile = InitEnvFile

NextMachine ==
    \/ CreateToken
    \/ EncodeToken
    \/ Cancel

SpecMachine == InitMachine /\ [][NextMachine]_vars

(***************************************************************************)
(* One run of writeEnvironmentFile                                         *)
(***************************************************************************)
InitEnvFiles ==
    /\ session = NewSession
    /\ dbSelf = ""
    /\ regTokens = {}
    /\ nextToken = 1
    /\ req = [r \in Req |-> IdleReq]
    /\ lastOK = "none"
    /\ lockOwner = 0
    /\ daemon = [d \in Daemons |-> InitDaemon]
    /\ mach = InitMach
    /\ sess = NoMachineSession
    /\ cancelled = FALSE
    /\ posts = <<>>
    /\ envfile \in EnvFileInits

NextEnvFile == writeEnvironmentFile

SpecEnvFile == InitEnvFiles /\ [][NextEnvFile]_vars

(***************************************************************************)
(* Properties of the session routes (checked under Spec)                   *)
(***************************************************************************)
\* the step in which login handler r calls s.Set and answers
SetStep(r) ==
    /\ req[r].kind = "login" /\ req[r].pc = "sessionSet"
    /\ req'[r].pc = "done"

\* C1: a POST /v1/login that arrived while the session was populated, and
\* finds it still populated when it comes to populate it, fails with
\* already_authenticated (409) and leaves the session's identity, passphrase
\* and auth token as they were.
C1_LoginWhilePopulated ==
    [][\A r \in Req :
         (SetStep(r) /\ req[r].pop0 /\ Populated(session))
            => (req'[r].status = "409" /\ session' = session)]_vars

\* C2: the logout handler's answer to the outcome of tokens.delete: a
\* registry status >= 500 leaves the session as it is (same auth token) and
\* returns the error; a status in 400..499 clears the session and answers
\* 204; success clears the session and answers 204.
C2_LogoutOutcome ==
    [][\A r \in Req :
         (req[r].kind = "logout" /\ req[r].pc = "switch" /\ req'[r].pc = "done")
            => LET e == req[r].err IN
               /\ e >= 500 => (session' = session /\ req'[r].status = "error")
               /\ (e >= 400 /\ e <= 499)
                     => (session' = EmptySession /\ req'[r].status = "204")
               /\ e = 0 => (session' = EmptySession /\ req'[r].status = "204")]_vars

\* a logout that got a 5XX has returned the error and the session still holds
\* its token, while another logout got a 4XX on the same token
C2_Witness ==
    \E r \in Req :
        /\ req[r].kind = "logout" /\ req[r].pc = "done" /\ req[r].err >= 500
        /\ req[r].status = "error"
        /\ Populated(session)
        /\ \E q \in Req : req[q].kind = "logout" /\ req[q].pc = "switch"
                          /\ req[q].err = 404 /\ req[q].tok = Token(session)

\* C3: of the logins that arrived on an empty session and run concurrently,
\* the one that finds the session empty populates it with its own token and
\* succeeds; every one that finds it already populated returns
\* already_authenticated (409) and does not overwrite the session.
C3_ConcurrentLogins ==
    [][\A r \in Req :
         (SetStep(r) /\ ~req[r].pop0)
            => IF Populated(session)
               THEN req'[r].status = "409" /\ session' = session
               ELSE req'[r].status = "204"
                    /\ Token(session') = req[r].authToken]_vars

\* C4: a login changes the session only in its last step, reached when
\* post_login, the HMAC derivation, post_auth and get_self all succeeded; a
\* login step that returns an error (decode error, 400, any failed call)
\* leaves the session as it is, so a login that started from an empty session
\* and fails returns with the session still empty.
C4_FailedLoginLeavesSession ==
    [][\A r \in Req :
         (req'[r].kind = "login" /\ req'[r] # req[r])
            => /\ req'[r].status # "204" => session' = session
               /\ session' # session
                    => /\ req[r].pc = "sessionSet"
                       /\ HMACAccepted(req[r].email, req[r].hmac)
                       /\ <<req[r].authToken, req[r].email>> \in regTokens
                       /\ req[r].self = SelfID[req[r].email]
                       /\ session' = [id |-> req[r].self,
                                      passphrase |-> req[r].passphrase,
                                      token |-> req[r].authToken]]_vars

\* a login failed at users.get_self, after the registry minted its auth token,
\* and the session is empty
C4_Witness ==
    \E r \in Req :
        /\ req[r].kind = "login" /\ req[r].pc = "done"
        /\ req[r].status = "error"
        /\ regTokens # {}
        /\ session = EmptySession /\ lastOK = "none"

\* C5: GET /v1/session answers {token: true, passphrase: true} exactly when
\* the latest successful session-changing request was a login, and "Not logged
\* in" (404) on a fresh daemon and after a successful logout; the session goes
\* from empty to populated only in a login that answers 204 and from populated
\* to empty only in a logout that answers 204.
C5_SessionLifecycle ==
    [][/\ \A r \in Req :
            (req[r].pc = "idle" /\ req'[r].kind = "session")
               => IF lastOK = "login"
                  THEN req'[r].status = "200" /\ req'[r].body = <<TRUE, TRUE>>
                  ELSE req'[r].status = "404"
                       /\ req'[r].body = <<"Not logged in">>
       /\ (~Populated(session) /\ Populated(session'))
            => \E r \in Req : req[r].kind = "login" /\ req[r].pc # "done"
                              /\ req'[r].pc = "done" /\ req'[r].status = "204"
       /\ (Populated(session) /\ ~Populated(session'))
            => \E r \in Req : req[r].kind = "logout" /\ req[r].pc # "done"
                              /\ req'[r].pc = "done" /\ req'[r].status = "204"
      ]_vars

\* after a login and a logout, GET /v1/session has answered "Not logged in",
\* and a second login has minted its token
C5_Witness ==
    \E r \in Req :
        /\ req[r].kind = "session" /\ req[r].pc = "done"
        /\ req[r].status = "404" /\ req[r].body = <<"Not logged in">>
        /\ lastOK = "logout" /\ nextToken > 2

\* C6: a user login takes its steps in the order post_login, HMAC, post_auth,
\* get_self, populate the session, persist self to the DB, each after the
\* previous one succeeded: self is written to the DB only by a login that has
\* populated the session.
C6_LoginOrder ==
    [][\A r \in Req :
         /\ (req[r].pc = "postAuth" /\ req'[r].pc = "getSelf")
               => req[r].hmac = DeriveLoginHMAC(req[r].passphrase,
                                   PostLoginSalt(req[r].email),
                                   PostLoginToken(req[r].email))
         /\ (req[r].pc = "getSelf" /\ req'[r].self # "")
               => req[r].authToken # 0
         /\ (req[r].kind = "login" /\ req'[r] # req[r] /\ dbSelf' = req[r].self
             /\ req[r].pc = "dbSet")
               => (Populated(session) /\ Token(session) = req[r].authToken)]_vars

(***************************************************************************)
(* Properties of the daemon lifecycle (checked under SpecDaemon)           *)
(***************************************************************************)
ProxyOpen(d) == daemon[d].proxy \in {"created", "listening"}

\* C7: Shutdown stops the updates worker, closes the proxy listener, closes
\* the DB and then releases the PID lockfile, in this order: the lockfile is
\* not released before the proxy listener and the DB have been closed.
C7_ShutdownOrder ==
    [][\A d \in Daemons :
         /\ (daemon[d].proxy # "closed" /\ daemon'[d].proxy = "closed")
               => daemon[d].updates # "running"
         /\ (daemon[d].db = "open" /\ daemon'[d].db = "closed")
               => daemon[d].proxy = "closed"
         /\ (lockOwner = d /\ lockOwner' # d)
               => (daemon[d].proxy = "closed" /\ daemon[d].db = "closed")]_vars

\* C8: while one instance holds the lockfile, New of the other fails at
\* TryLock without opening the DB or creating the proxy, and the two
\* instances never have their DB open, or their proxy socket open, at the
\* same time.
C8_SingleInstance ==
    /\ [](\A d, e \in Daemons :
            d # e => /\ ~(daemon[d].db = "open" /\ daemon[e].db = "open")
                     /\ ~(ProxyOpen(d) /\ ProxyOpen(e)))
    /\ [][\A d \in Daemons :
            (daemon[d].newpc = "tryLock" /\ daemon'[d].newpc # "tryLock"
             /\ lockOwner \notin {0, d})
               => /\ daemon'[d].result = "err"
                  /\ daemon'[d].db = "none" /\ daemon'[d].proxy = "none"
                  /\ lockOwner' = lockOwner]_vars

\* does Run of d see the pair of variables fully set
UserPair(e) == e.hasEmail /\ e.hasPassword
TokenPair(e) == e.hasTokenID /\ e.hasTokenSecret

\* C9: the proxy starts listening only after the login of every fully set
\* pair has succeeded; when a login, or the parsing of the token id or secret,
\* fails, Run has returned the error and neither the updates worker nor the
\* proxy listener is started; a login is made only for a fully set pair.
C9_EnvLoginBeforeListen ==
    /\ [](\A d \in Daemons :
            daemon[d].runErr \in {"login", "parse"}
               => /\ daemon[d].runpc = "returned"
                  /\ daemon[d].updates # "running"
                  /\ daemon[d].proxy # "listening"
                  /\ UserPair(daemon[d].env) \/ TokenPair(daemon[d].env))
    /\ [][\A d \in Daemons :
            /\ (daemon[d].proxy # "listening" /\ daemon'[d].proxy = "listening")
                  => /\ UserPair(daemon[d].env) => "user" \in daemon[d].logins
                     /\ TokenPair(daemon[d].env)
                           => "machine" \in daemon[d].logins
            /\ (daemon'[d].sess # daemon[d].sess /\ daemon'[d].sess = "user")
                  => UserPair(daemon'[d].env)
            /\ (daemon'[d].sess # daemon[d].sess /\ daemon'[d].sess = "machine")
                  => TokenPair(daemon'[d].env)]_vars

\* Run, with TORUS_EMAIL and TORUS_PASSWORD set, has logged in as the user and
\* the proxy is listening
C9_Witness ==
    \E d \in Daemons :
        /\ daemon[d].proxy = "listening" /\ daemon[d].logins = {"user"}
        /\ daemon[d].sess = "user"

\* C10: whenever the latest Shutdown call has returned nil, the lockfile has
\* been released, the proxy listener and the DB are closed and the updates
\* worker is stopped, also when an earlier Shutdown call failed.
C10_GracefulShutdown ==
    \A d \in Daemons :
        (daemon[d].sdpc = "none" /\ daemon[d].sdResult = "nil")
           => /\ lockOwner # d
              /\ daemon[d].proxy = "closed"
              /\ daemon[d].db = "closed"
              /\ daemon[d].updates # "running"


(***************************************************************************)
(* Machine tokens                                                          *)
(***************************************************************************)
\* the POSTs a successful EncodeToken makes for n1 V1 and n2 V2 memberships
ExpectedPosts(n1, n2) ==
    (IF n1 > 0 THEN <<MemberPost("v1", 1..n1, TRUE)>> ELSE <<>>)
    \o [i \in 1..n2 |-> MemberPost("v2", {i}, TRUE)]

\* C11: EncodeToken posts all V1 memberships in one batch request (none when
\* there are no V1 memberships) and each V2 membership in a request of its
\* own, the V1 batch before any V2 request and nothing before the memberships
\* were derived; a successful call makes exactly the batch and one request
\* per V2 membership.
C11_EncodePosts ==
    /\ mach.pc \notin {"postV1", "postV2", "etReturned"} => posts = <<>>
    /\ Cardinality({i \in DOMAIN posts : posts[i].kind = "v1"})
         <= (IF mach.v1 > 0 THEN 1 ELSE 0)
    /\ \A i \in DOMAIN posts :
         /\ posts[i].kind = "v1" => i = 1 /\ posts[i].members = 1..mach.v1
         /\ posts[i].kind = "v2" => Cardinality(posts[i].members) = 1
    /\ mach.etResult = "nil" => posts = ExpectedPosts(mach.v1, mach.v2)

C11_Witness ==
    /\ mach.etResult = "nil"
    /\ mach.v1 = MaxV1 /\ mach.v2 = MaxV2
    /\ Len(posts) = 1 + MaxV2

\* C12: an error of the derivation makes EncodeToken return it with no POST
\* made; a failed V1 batch or a failed V2 request makes EncodeToken return at
\* once, so a failed POST is the last one made, and the POSTs already made are
\* never taken back.
C12_EncodeErrors ==
    /\ [](\A i \in DOMAIN posts :
            ~posts[i].ok => i = Len(posts) /\ mach.etResult = "err")
    /\ [](mach.etResult = "err" /\ mach.pc = "etReturned"
            => \/ posts = <<>>
               \/ SubSeq(posts, 1, Len(posts) - 1)
                    = SubSeq(ExpectedPosts(mach.v1, mach.v2), 1,
                             Len(posts) - 1)
               \/ posts = SubSeq(ExpectedPosts(mach.v1, mach.v2), 1,
                                 Len(posts)))
    /\ [][/\ Len(posts') >= Len(posts)
          /\ SubSeq(posts', 1, Len(posts)) = posts
          /\ (mach.pc = "ctReturned" /\ mach'.etResult = "err"
                => posts' = <<>>)
          /\ (mach.pc = "etReturned" => posts' = posts)]_vars

C12_Witness ==
    /\ mach.etResult = "err"
    /\ mach.v2 = MaxV2
    /\ Len(posts) = 2
    /\ posts[1].kind = "v1" /\ posts[1].ok
    /\ posts[2].kind = "v2" /\ ~posts[2].ok

\* C13: when the request context is cancelled after CreateToken returned its
\* segment and before EncodeToken starts, EncodeToken returns an error and
\* posts no keyring member.
C13_CancelledBeforeEncode ==
    mach.cancelled0 =>
        /\ mach.pc = "etReturned"
        /\ mach.etResult = "err"
        /\ posts = <<>>

C13_Witness ==
    /\ mach.ctResult = "segment"
    /\ mach.cancelled0
    /\ mach.etResult = "err"

\* C14: no step of CreateToken changes the session of the engine; CreateToken
\* only reads it, for the CreatedBy of the token it builds.
C14_GlobalSessionKept ==
    /\ [](mach.token # "" => mach.createdBy = session.id)
    /\ [](mach.ctResult = "segment" => session \in UserSessions)
    /\ [][mach'.pc # mach.pc => session' = session]_vars

C14_Witness ==
    /\ mach.ctResult = "segment"
    /\ mach.createdBy = session.id
    /\ sess.type = "machine"
    /\ Populated(session)

\* C20: once CreateToken has returned, the ephemeral session it created holds
\* nothing: neither the token secret nor the placeholder auth token.
C20_EphemeralSessionEmptied ==
    mach.ctResult # "none" => sess = NoMachineSession

(***************************************************************************)
(* The environment file of a bootstrapped machine                          *)
(***************************************************************************)
\* C15: in every state during or after writeEnvironmentFile in which the
\* environment file contains the token secret its mode is 0600, also when
\* the file already existed or the chmod fails, and writeEnvironmentFile
\* returns nil only if the file holds exactly the two lines.
C15_EnvFileMode ==
    /\ (envfile.exists
          /\ \E i \in DOMAIN envfile.content :
               envfile.content[i] = SecretLine(envfile.secret))
         => envfile.mode = "0600"
    /\ envfile.result = "nil"
         => envfile.content = <<TokenLine(envfile.token),
                                SecretLine(envfile.secret)>>

(***************************************************************************)
(* Failures of New                                                         *)
(***************************************************************************)
\* C16: New never returns a nil daemon together with a nil error: a panic
\* raised after the lockfile was acquired is recovered and returned as an
\* error.
C16_PanicReturnsError ==
    \A d \in Daemons :
        daemon[d].newpc = "returned" => daemon[d].result \in {"daemon", "err"}

\* C17: once New has failed after TryLock succeeded, the lockfile is not
\* left held by the process New ran in.
C17_FailedNewReleasesLock ==
    \A d \in Daemons :
        (daemon[d].newpc = "returned" /\ daemon[d].result # "daemon")
            => lockOwner # d

(***************************************************************************)
(* Outcomes of logout                                                      *)
(***************************************************************************)
\* C18: every logout ends in one of two ways: the session is cleared and the
\* response is 204, or the session is as it was and the response is an error
\* status (404 without a token, else the encoded error); no outcome of
\* tokens.delete leaves the session populated with a success status or with
\* no response written.
C18_LogoutTwoOutcomes ==
    [][\A r \in Req :
         (req'[r].kind = "logout" /\ req[r].pc # "done" /\ req'[r].pc = "done")
            => \/ req'[r].status = "204" /\ ~Populated(session')
               \/ /\ req'[r].status \in {"404", encodeResponseErr}
                  /\ session' = session]_vars

\* C19: a logout clears the session only if the session still holds the auth
\* token that this logout read and deleted at the registry.
C19_LogoutClearsOwnToken ==
    [][\A r \in Req :
         (/\ req[r].kind = "logout" /\ req[r].pc = "switch"
          /\ req'[r].pc = "done"
          /\ Populated(session) /\ ~Populated(session'))
            => Token(session) = req[r].tok]_vars

====
